---------------------------- MODULE Spec2Model ----------------------------
(***************************************************************************)
(* A model of fill_form.py: the sanitizer, the brace-balanced collector,   *)
(* the marker extractor, the request/response resolver of parse_log_file,  *)
(* the field normalizer extract_fields and the main program's             *)
(* render-and-write path.                                                  *)
(*                                                                         *)
(* Text is a sequence of symbols.  A symbol is one character ("{", ":",    *)
(* a control character written <LF>, <CR>, <ESC>, <SOH>, ...) or a word: a  *)
(* run of printable characters that no operation of the program ever       *)
(* splits (a key name such as cart, a log message such as [REQUEST]:).     *)
(* Words occur only in texts that hold no <ESC> and no backslash directly  *)
(* before them, so that neither the ANSI pattern nor an escape can cut     *)
(* one.                                                                    *)
(***************************************************************************)
EXTENDS Integers, Sequences, FiniteSets, TLC

VARIABLES
    pc,             \* position of the run
    block,          \* sanitize_json_block: the input text
    sanitized,      \* sanitize_json_block(block)
    resanitized,    \* sanitize_json_block(sanitized)
    decoded,        \* json.loads(sanitized)
    lines,          \* the log's lines (text.splitlines())
    start_index,    \* collect_json_from_line_list: start_index
    collected,      \* collect_json_from_line_list: what it did
    marker,         \* extract_json_after_marker: marker
    require_keys,   \* extract_json_after_marker: require_keys
    first,          \* extract_json_after_marker: first
    extracted,      \* extract_json_after_marker: the returned object
    entries,        \* the log entries the lines were written from
    request_json,   \* parse_log_file / extract_fields: request_json
    response_json,  \* parse_log_file / extract_fields: response_json
    summary,        \* the summary extract_fields returned
    report,         \* what generate_report returned
    exit_code,      \* the process exit code
    out_file        \* whether rate_analysis_<ts>.txt was written

vars == <<pc, block, sanitized, resanitized, decoded, lines, start_index,
          collected, marker, require_keys, first, extracted, entries,
          request_json, response_json, summary, report, exit_code, out_file>>

sanVars == <<block, sanitized, resanitized, decoded>>
collectVars == <<start_index, collected>>
extractVars == <<marker, require_keys, first, extracted>>
mainVars == <<entries, request_json, response_json, summary, report,
              exit_code, out_file>>

Min(S) == CHOOSE x \in S : \A y \in S : x <= y
Max(S) == CHOOSE x \in S : \A y \in S : x >= y

-----------------------------------------------------------------------------
(* Characters *)

LB == "{"
RB == "}"
COLON == ":"
COMMA == ","
QUOTE == "\""
BSL == "\\"
LBRACK == "["
RBRACK == "]"
SPACE == " "
LF == "<LF>"
CR == "<CR>"
TAB == "<TAB>"
ESC == "<ESC>"
SOH == "<SOH>"

Digits == {"1", "2", "3", "4", "5"}
Letters == {"n", "r", "t", "m"}

\* ord(ch) < 32
ControlChars == {LF, CR, TAB, ESC, SOH}

\* str.lstrip() and the JSON decoder's whitespace
StripChars == {SPACE, TAB, LF, CR}

\* The classes of the pattern \x1B[@-_][0-?]*[ -/]*[@-~]
AnsiIntro == {LBRACK, RBRACK, BSL}
AnsiParam == Digits \cup {COLON}
AnsiInter == {SPACE, COMMA, QUOTE}
AnsiFinal == Letters \cup {LBRACK, RBRACK, BSL, LB, RB}

-----------------------------------------------------------------------------
(* sanitize_json_block *)

RECURSIVE SkipClass(_, _, _)
\* The index after the longest run of class cls that starts at i.
SkipClass(t, i, cls) ==
    IF i <= Len(t) /\ t[i] \in cls THEN SkipClass(t, i + 1, cls) ELSE i

\* The index of the last character of the pattern's match starting at i,
\* or 0 when the pattern does not match there.
AnsiMatchEnd(t, i) ==
    IF t[i] = ESC /\ i + 1 <= Len(t) /\ t[i + 1] \in AnsiIntro
    THEN LET q == SkipClass(t, SkipClass(t, i + 2, AnsiParam), AnsiInter)
         IN  IF q <= Len(t) /\ t[q] \in AnsiFinal THEN q ELSE 0
    ELSE 0

RECURSIVE StripAnsiFrom(_, _)
StripAnsiFrom(t, i) ==
    IF i > Len(t) THEN <<>>
    ELSE LET e == AnsiMatchEnd(t, i)
         IN  IF e > 0 THEN StripAnsiFrom(t, e + 1)
             ELSE <<t[i]>> \o StripAnsiFrom(t, i + 1)

\* re.sub(pattern, '', block)
StripAnsi(t) == StripAnsiFrom(t, 1)

\* A faulty variant: the character after a backslash is consumed, not appended.
SanitizeCharDropEscaped(st, ch) ==
    IF st.escape_next
    THEN [st EXCEPT !.escape_next = FALSE]
    ELSE IF ch = BSL
    THEN [st EXCEPT !.result = Append(@, ch), !.escape_next = TRUE]
    ELSE IF ch = QUOTE
    THEN [st EXCEPT !.result = Append(@, ch), !.in_string = ~@]
    ELSE IF st.in_string /\ ch = LF
    THEN [st EXCEPT !.result = @ \o <<BSL, "n">>]
    ELSE IF st.in_string /\ ch = CR
    THEN [st EXCEPT !.result = @ \o <<BSL, "r">>]
    ELSE IF st.in_string /\ ch \in ControlChars
    THEN [st EXCEPT !.result = Append(@, SPACE)]
    ELSE IF ~st.in_string /\ ch = CR
    THEN st
    ELSE IF ~st.in_string /\ ch \in ControlChars /\ ch \notin {LF, TAB}
    THEN st
    ELSE [st EXCEPT !.result = Append(@, ch)]

\* A faulty variant: a raw newline inside a string is appended as it is.
SanitizeCharKeepNewline(st, ch) ==
    IF st.escape_next
    THEN [st EXCEPT !.result = Append(@, ch), !.escape_next = FALSE]
    ELSE IF ch = BSL
    THEN [st EXCEPT !.result = Append(@, ch), !.escape_next = TRUE]
    ELSE IF ch = QUOTE
    THEN [st EXCEPT !.result = Append(@, ch), !.in_string = ~@]
    ELSE IF st.in_string /\ ch = CR
    THEN [st EXCEPT !.result = @ \o <<BSL, "r">>]
    ELSE IF st.in_string /\ ch \in ControlChars \ {LF}
    THEN [st EXCEPT !.result = Append(@, SPACE)]
    ELSE IF ~st.in_string /\ ch = CR
    THEN st
    ELSE IF ~st.in_string /\ ch \in ControlChars /\ ch \notin {LF, TAB}
    THEN st
    ELSE [st EXCEPT !.result = Append(@, ch)]

\* A faulty variant: a backslash is itself escaped, written as two backslashes.
SanitizeCharDoubleBackslash(st, ch) ==
    IF st.escape_next
    THEN [st EXCEPT !.result = Append(@, ch), !.escape_next = FALSE]
    ELSE IF ch = BSL
    THEN [st EXCEPT !.result = @ \o <<BSL, BSL>>, !.escape_next = TRUE]
    ELSE IF ch = QUOTE
    THEN [st EXCEPT !.result = Append(@, ch), !.in_string = ~@]
    ELSE IF st.in_string /\ ch = LF
    THEN [st EXCEPT !.result = @ \o <<BSL, "n">>]
    ELSE IF st.in_string /\ ch = CR
    THEN [st EXCEPT !.result = @ \o <<BSL, "r">>]
    ELSE IF st.in_string /\ ch \in ControlChars
    THEN [st EXCEPT !.result = Append(@, SPACE)]
    ELSE IF ~st.in_string /\ ch = CR
    THEN st
    ELSE IF ~st.in_string /\ ch \in ControlChars /\ ch \notin {LF, TAB}
    THEN st
    ELSE [st EXCEPT !.result = Append(@, ch)]

\* One iteration of "for ch in block".
SanitizeChar(st, ch) ==
    IF st.escape_next
    THEN [st EXCEPT !.result = Append(@, ch), !.escape_next = FALSE]
    ELSE IF ch = BSL
    THEN [st EXCEPT !.result = Append(@, ch), !.escape_next = TRUE]
    ELSE IF ch = QUOTE
    THEN [st EXCEPT !.result = Append(@, ch), !.in_string = ~@]
    ELSE IF st.in_string /\ ch = LF
    THEN [st EXCEPT !.result = @ \o <<BSL, "n">>]
    ELSE IF st.in_string /\ ch = CR
    THEN [st EXCEPT !.result = @ \o <<BSL, "r">>]
    ELSE IF st.in_string /\ ch \in ControlChars
    THEN [st EXCEPT !.result = Append(@, SPACE)]
    ELSE IF ~st.in_string /\ ch = CR
    THEN st
    ELSE IF ~st.in_string /\ ch \in ControlChars /\ ch \notin {LF, TAB}
    THEN st
    ELSE [st EXCEPT !.result = Append(@, ch)]

RECURSIVE SanitizeLoop(_, _, _)
SanitizeLoop(t, i, st) ==
    IF i > Len(t) THEN st.result
    ELSE SanitizeLoop(t, i + 1, SanitizeChar(st, t[i]))

sanitize_json_block(t) ==
    SanitizeLoop(StripAnsi(t), 1,
                 [result |-> <<>>, in_string |-> FALSE, escape_next |-> FALSE])

-----------------------------------------------------------------------------
(* JSON values and json.loads *)

\* None: what json.loads gives for null, and what the extractors return
\* for "nothing found"
None == [t |-> "none", v |-> <<>>]
Bool(w) == [t |-> "bool", v |-> <<w>>]
Num(ds) == [t |-> "num", v |-> ds]
Str(cs) == [t |-> "str", v |-> cs]
List(vs) == [t |-> "list", v |-> vs]
\* f maps each key (the key's text) to its value
Dict(f) == [t |-> "dict", v |-> f]
EmptyDict == Dict(<<>>)
\* json.JSONDecodeError
DecodeError == [t |-> "error", v |-> <<>>]

IsDict(x) == x.t = "dict"
IsList(x) == x.t = "list"
IsStr(x) == x.t = "str"

Fail == [ok |-> FALSE, v |-> None, i |-> 0]
Ok(x, i) == [ok |-> TRUE, v |-> x, i |-> i]

SkipWs(t, i) == SkipClass(t, i, StripChars)

EscapeChars == {QUOTE, BSL, "/", "n", "r", "t"}
Unescape(c) ==
    CASE c = "n" -> LF
      [] c = "r" -> CR
      [] c = "t" -> TAB
      [] OTHER -> c

RECURSIVE ParseString(_, _, _, _)
\* The string whose opening quote is before j; strict rejects a raw
\* control character.
ParseString(t, j, acc, strict) ==
    IF j > Len(t) THEN Fail
    ELSE IF t[j] = QUOTE THEN Ok(Str(acc), j + 1)
    ELSE IF t[j] = BSL
    THEN IF j + 1 <= Len(t) /\ t[j + 1] \in EscapeChars
         THEN ParseString(t, j + 2, Append(acc, Unescape(t[j + 1])), strict)
         ELSE Fail
    ELSE IF strict /\ t[j] \in ControlChars THEN Fail
    ELSE ParseString(t, j + 1, Append(acc, t[j]), strict)

RECURSIVE ParseValue(_, _, _)
RECURSIVE ParseMembers(_, _, _, _)
RECURSIVE ParseElements(_, _, _, _)

ParseValue(t, i, strict) ==
    IF i > Len(t) THEN Fail
    ELSE IF t[i] = QUOTE THEN ParseString(t, i + 1, <<>>, strict)
    ELSE IF t[i] = LB
    THEN LET j == SkipWs(t, i + 1)
         IN  IF j <= Len(t) /\ t[j] = RB THEN Ok(EmptyDict, j + 1)
             ELSE ParseMembers(t, j, <<>>, strict)
    ELSE IF t[i] = LBRACK
    THEN LET j == SkipWs(t, i + 1)
         IN  IF j <= Len(t) /\ t[j] = RBRACK THEN Ok(List(<<>>), j + 1)
             ELSE ParseElements(t, j, <<>>, strict)
    ELSE IF t[i] \in Digits
    THEN LET e == SkipClass(t, i, Digits)
         IN  Ok(Num(SubSeq(t, i, e - 1)), e)
    ELSE IF t[i] = "null" THEN Ok(None, i + 1)
    ELSE IF t[i] \in {"true", "false"} THEN Ok(Bool(t[i]), i + 1)
    ELSE Fail

\* The members of an object from the key at j on; f holds those read.
ParseMembers(t, j, f, strict) ==
    IF j > Len(t) \/ t[j] # QUOTE THEN Fail
    ELSE LET k == ParseString(t, j + 1, <<>>, strict)
         IN  IF ~k.ok THEN Fail
             ELSE LET c == SkipWs(t, k.i)
                  IN  IF c > Len(t) \/ t[c] # COLON THEN Fail
                      ELSE LET x == ParseValue(t, SkipWs(t, c + 1), strict)
                           IN  IF ~x.ok THEN Fail
                               ELSE LET g == (k.v.v :> x.v) @@ f
                                        e == SkipWs(t, x.i)
                                    IN  IF e > Len(t) THEN Fail
                                        ELSE IF t[e] = RB
                                        THEN Ok(Dict(g), e + 1)
                                        ELSE IF t[e] = COMMA
                                        THEN ParseMembers(t, SkipWs(t, e + 1),
                                                          g, strict)
                                        ELSE Fail

\* The elements of an array from the value at j on; vs holds those read.
ParseElements(t, j, vs, strict) ==
    LET x == ParseValue(t, j, strict)
    IN  IF ~x.ok THEN Fail
        ELSE LET e == SkipWs(t, x.i)
             IN  IF e > Len(t) THEN Fail
                 ELSE IF t[e] = RBRACK THEN Ok(List(Append(vs, x.v)), e + 1)
                 ELSE IF t[e] = COMMA
                 THEN ParseElements(t, SkipWs(t, e + 1), Append(vs, x.v),
                                    strict)
                 ELSE Fail

Decode(t, strict) ==
    LET x == ParseValue(t, SkipWs(t, 1), strict)
    IN  IF x.ok /\ SkipWs(t, x.i) > Len(t) THEN x.v ELSE DecodeError

\* json.loads(t)
JsonLoads(t) == Decode(t, TRUE)

-----------------------------------------------------------------------------
(* collect_json_from_line_list *)

\* Indices of lines are the program's: line j of the list is lines[j + 1].
LineAt(ls, j) == ls[j + 1]

\* line.lstrip()
Lstrip(line) == SubSeq(line, SkipClass(line, 1, StripChars), Len(line))
\* stripped.startswith("{")
StartsWithBrace(line) == Len(line) > 0 /\ line[1] = LB
\* line.count(c)
Count(line, c) == Cardinality({i \in DOMAIN line : line[i] = c})

RECURSIVE Join(_, _)
\* sep.join(ls)
Join(ls, sep) ==
    IF ls = <<>> THEN <<>>
    ELSE IF Len(ls) = 1 THEN ls[1]
    ELSE ls[1] \o <<sep>> \o Join(Tail(ls), sep)

RECURSIVE FindStart(_, _)
\* The first loop: the first j >= start_index whose stripped line starts
\* with "{", or Len(ls) when there is none (found_start is None).
FindStart(ls, j) ==
    IF j >= Len(ls) THEN Len(ls)
    ELSE IF StartsWithBrace(Lstrip(LineAt(ls, j))) THEN j
    ELSE FindStart(ls, j + 1)

\* A faulty variant: json.loads outside any try: a decode error propagates.
TryJsonLoadsUncaught(sanitizedBlock) ==
    LET x == JsonLoads(sanitizedBlock)
    IN  IF x = DecodeError THEN [raised |-> TRUE, value |-> None]
        ELSE [raised |-> FALSE, value |-> x]

\* try: return json.loads(sanitized) / except Exception: return None
TryJsonLoads(sanitizedBlock) ==
    LET x == JsonLoads(sanitizedBlock)
    IN  IF x = DecodeError THEN [raised |-> FALSE, value |-> None]
        ELSE [raised |-> FALSE, value |-> x]

\* A faulty variant: the block ends as soon as the balance is zero or below.
BlockCompleteAtMostZero(started, brace_count) == started /\ brace_count <= 0

\* if started and brace_count == 0
BlockComplete(started, brace_count) == started /\ brace_count = 0

RECURSIVE CollectLoop(_, _, _, _, _, _)
\* The second loop, at line j.  What it returns says what the function
\* did: outcome, the raw block handed to the sanitizer (when one was), the
\* lines it spans, and the value returned.
CollectLoop(ls, found_start, j, brace_count, acc, started) ==
    IF j >= Len(ls)
    THEN [outcome |-> "eof", handed |-> FALSE, raw_block |-> <<>>,
          from |-> found_start, to |-> j, value |-> None]
    ELSE LET line == IF j = found_start THEN Lstrip(LineAt(ls, j))
                     ELSE LineAt(ls, j)
             acc2 == Append(acc, line)
             count2 == brace_count + Count(line, LB) - Count(line, RB)
             started2 == started \/ Count(line, LB) > 0
         IN  IF BlockComplete(started2, count2)
             THEN LET raw_block == Join(acc2, LF)
                      r == TryJsonLoads(sanitize_json_block(raw_block))
                  IN  [outcome |-> IF r.raised THEN "raised"
                                   ELSE IF r.value = None THEN "decode_error"
                                   ELSE "decoded",
                       handed |-> TRUE, raw_block |-> raw_block,
                       from |-> found_start, to |-> j, value |-> r.value]
             ELSE CollectLoop(ls, found_start, j + 1, count2, acc2, started2)

\* The whole call, with what it did.
CollectRun(ls, start) ==
    LET found_start == FindStart(ls, start)
    IN  IF found_start >= Len(ls)
        THEN [outcome |-> "no_start", handed |-> FALSE, raw_block |-> <<>>,
              from |-> found_start, to |-> found_start, value |-> None]
        ELSE CollectLoop(ls, found_start, found_start, 0, <<>>, FALSE)

\* The value collect_json_from_line_list(lines, start_index) returns.
collect_json_from_line_list(ls, start) == CollectRun(ls, start).value

-----------------------------------------------------------------------------
(* extract_json_after_marker *)

\* Log messages.  Each is one word of a line.
MsgShopifyRequest == "Converted shopify request to"
MsgBigcommerceRequest == "Converted bigcommerce request to"
MsgGraphqlRequest == "REST Request after GraphQL Unmarshalling"
MsgRequest == "[REQUEST]:"
MsgMagentoRequest == "Converted magento request to"
MsgShopifyRequestCaps == "Converted Shopify request to"
MsgShopifyResponse ==
    "Adapting the following rate response to shopify response"
MsgBigcommerceResponse ==
    "Adapting the following rate response to bigcommerce response"
MsgGraphqlResponse == "REST Response before GraphQL Marshalling"
MsgResponse == "[RESPONSE]:"
MsgMagentoResponse ==
    "Adapting the following rate response to magento response"
MsgInfo == "INFO"

\* word.lower(), for the words the program lowers
Lower(w) ==
    CASE w = MsgShopifyRequestCaps -> "converted shopify request to"
      [] w = MsgShopifyRequest -> "converted shopify request to"
      [] w = MsgBigcommerceRequest -> "converted bigcommerce request to"
      [] w = MsgMagentoRequest -> "converted magento request to"
      [] w = MsgShopifyResponse ->
            "adapting the following rate response to shopify response"
      [] w = MsgBigcommerceResponse ->
            "adapting the following rate response to bigcommerce response"
      [] w = MsgMagentoResponse ->
            "adapting the following rate response to magento response"
      [] OTHER -> w

\* The pairs <<needle, word>> with needle a proper substring of word, for
\* the needles the program looks for.
ProperSubstrings ==
    {<<"Converted", MsgShopifyRequest>>,
     <<"Converted", MsgBigcommerceRequest>>,
     <<"Converted", MsgMagentoRequest>>,
     <<"Converted", MsgShopifyRequestCaps>>,
     <<"request to", MsgShopifyRequest>>,
     <<"request to", MsgBigcommerceRequest>>,
     <<"request to", MsgMagentoRequest>>,
     <<"request to", MsgShopifyRequestCaps>>,
     <<"shopify", "converted shopify request to">>,
     <<"bigcommerce", "converted bigcommerce request to">>,
     <<"shopify",
       "adapting the following rate response to shopify response">>,
     <<"bigcommerce",
       "adapting the following rate response to bigcommerce response">>,
     <<"Adapting the following rate response to", MsgShopifyResponse>>,
     <<"Adapting the following rate response to", MsgBigcommerceResponse>>,
     <<"Adapting the following rate response to", MsgMagentoResponse>>,
     <<"shopify response",
       "adapting the following rate response to shopify response">>,
     <<"bigcommerce response",
       "adapting the following rate response to bigcommerce response">>}

\* needle in line
Contains(line, needle) ==
    \E k \in DOMAIN line :
        line[k] = needle \/ <<needle, line[k]>> \in ProperSubstrings
\* needle in line.lower()
LowerContains(line, needle) ==
    \E k \in DOMAIN line :
        Lower(line[k]) = needle \/ <<needle, Lower(line[k])>> \in ProperSubstrings

\* line[line.index("{"):]
FromFirstBrace(line) ==
    LET k == CHOOSE k \in DOMAIN line :
                 line[k] = LB /\ \A m \in 1..(k - 1) : line[m] # LB
    IN  SubSeq(line, k, Len(line))
\* lines[i + 1:]
LinesAfter(ls, i) == SubSeq(ls, i + 2, Len(ls))

\* The object collected for the marker line i: from the line's own "{"
\* when it has one, else from the lines after it.
CollectAtMatch(ls, i) ==
    IF Count(LineAt(ls, i), LB) > 0
    THEN collect_json_from_line_list(
             <<FromFirstBrace(LineAt(ls, i))>> \o LinesAfter(ls, i), 0)
    ELSE collect_json_from_line_list(ls, i + 1)

\* all(k in obj for k in require_keys)
HasKeys(obj, keys) ==
    \A n \in DOMAIN keys : IsDict(obj) /\ keys[n] \in DOMAIN obj.v

RECURSIVE MarkerIndices(_, _, _)
\* [i for i, line in enumerate(lines) if marker in line], from i on
MarkerIndices(ls, mk, i) ==
    IF i >= Len(ls) THEN <<>>
    ELSE (IF Contains(LineAt(ls, i), mk) THEN <<i>> ELSE <<>>)
         \o MarkerIndices(ls, mk, i + 1)

RECURSIVE Reversed(_)
Reversed(q) == IF q = <<>> THEN <<>> ELSE Append(Reversed(Tail(q)), Head(q))

RECURSIVE ExtractLoop(_, _, _)

\* A faulty variant: a match that collects nothing ends the search.
ExtractTestAbort(ls, indices, keys, obj) ==
    IF obj = None THEN None
    ELSE IF keys # <<>> /\ ~HasKeys(obj, keys)
    THEN ExtractLoop(ls, Tail(indices), keys)
    ELSE obj

\* The body of the loop for the object obj of the match Head(indices):
\* if obj is None: continue / if require_keys and not all(...): continue /
\* return obj
ExtractTest(ls, indices, keys, obj) ==
    IF obj = None THEN ExtractLoop(ls, Tail(indices), keys)
    ELSE IF keys # <<>> /\ ~HasKeys(obj, keys)
    THEN ExtractLoop(ls, Tail(indices), keys)
    ELSE obj

\* for i in indices: ...
ExtractLoop(ls, indices, keys) ==
    IF indices = <<>> THEN None
    ELSE ExtractTest(ls, indices, keys, CollectAtMatch(ls, Head(indices)))

extract_json_after_marker(ls, mk, keys, fst) ==
    LET indices == MarkerIndices(ls, mk, 0)
    IN  ExtractLoop(ls, IF fst THEN indices ELSE Reversed(indices), keys)

\* json_contains_carrier_groups(obj)
KeyCarrierGroups == <<"carrierGroups">>
KeyCart == <<"cart">>
KeyDestination == <<"destination">>

RECURSIVE json_contains_carrier_groups(_)
json_contains_carrier_groups(obj) ==
    IF IsDict(obj)
    THEN \/ KeyCarrierGroups \in DOMAIN obj.v
         \/ \E k \in DOMAIN obj.v : json_contains_carrier_groups(obj.v[k])
    ELSE IF IsList(obj)
    THEN \E n \in DOMAIN obj.v : json_contains_carrier_groups(obj.v[n])
    ELSE FALSE

-----------------------------------------------------------------------------
(* parse_log_file: the request and response strategies *)

\* bool(x)
Truthy(x) ==
    CASE x.t = "none" -> FALSE
      [] x.t = "bool" -> x.v = <<"true">>
      [] x.t = "num" -> \E n \in DOMAIN x.v : x.v[n] # "0"
      [] x.t \in {"str", "list"} -> x.v # <<>>
      [] x.t = "dict" -> DOMAIN x.v # {}
      [] OTHER -> FALSE

\* The line is one the generic request strategy looks at.
IsGenericRequestLine(line) ==
    /\ Contains(line, "Converted")
    /\ Contains(line, "request to")
    /\ ~LowerContains(line, "shopify")
    /\ ~LowerContains(line, "bigcommerce")

\* The line is one the generic response strategy looks at.
IsGenericResponseLine(line) ==
    /\ Contains(line, "Adapting the following rate response to")
    /\ ~(\/ LowerContains(line, "shopify response")
         \/ LowerContains(line, "bigcommerce response"))

RECURSIVE GenericRequest(_, _)
\* if obj and "cart" in obj and "destination" in obj: request_json = obj
GenericRequestTest(ls, i, obj) ==
    IF Truthy(obj) /\ HasKeys(obj, <<KeyCart, KeyDestination>>)
    THEN obj
    ELSE GenericRequest(ls, i + 1)
\* Request strategy 5, from line i on.
GenericRequest(ls, i) ==
    IF i >= Len(ls) THEN None
    ELSE IF IsGenericRequestLine(LineAt(ls, i))
    THEN GenericRequestTest(ls, i, CollectAtMatch(ls, i))
    ELSE GenericRequest(ls, i + 1)

RECURSIVE GenericResponse(_, _)
\* if obj and json_contains_carrier_groups(obj): response_json = obj
GenericResponseTest(ls, i, obj) ==
    IF Truthy(obj) /\ json_contains_carrier_groups(obj)
    THEN obj
    ELSE GenericResponse(ls, i + 1)
\* Response strategy 5, from line i on.
GenericResponse(ls, i) ==
    IF i >= Len(ls) THEN None
    ELSE IF IsGenericResponseLine(LineAt(ls, i))
    THEN GenericResponseTest(ls, i, CollectAtMatch(ls, i))
    ELSE GenericResponse(ls, i + 1)

\* The marker and the required keys of request strategies 1 to 4; the
\* generic strategy 5 looks for "Converted ... request to", as the
\* magento adapter writes it.
RequestMarker(k) ==
    CASE k = 1 -> MsgShopifyRequest
      [] k = 2 -> MsgBigcommerceRequest
      [] k = 3 -> MsgGraphqlRequest
      [] k = 4 -> MsgRequest
      [] OTHER -> MsgMagentoRequest
RequestKeys(k) ==
    IF k \in {1, 2} THEN <<KeyCart, KeyDestination>> ELSE <<KeyCart>>

\* What request strategy k gives.
RequestStrategy(k, ls) ==
    IF k < 5
    THEN extract_json_after_marker(ls, RequestMarker(k), RequestKeys(k), TRUE)
    ELSE GenericRequest(ls, 0)

\* The marker of response strategies 1 to 4, and whether the first match
\* is taken; the generic strategy 5 looks for "Adapting the following
\* rate response to", as the magento adapter writes it.
ResponseMarker(k) ==
    CASE k = 1 -> MsgShopifyResponse
      [] k = 2 -> MsgBigcommerceResponse
      [] k = 3 -> MsgGraphqlResponse
      [] k = 4 -> MsgResponse
      [] OTHER -> MsgMagentoResponse
ResponseFirst(k) == k \in {3, 4}

\* The object response strategy k extracts, before it is tested.
ResponseExtract(k, ls) ==
    IF k < 5
    THEN extract_json_after_marker(ls, ResponseMarker(k), <<>>,
                                   ResponseFirst(k))
    ELSE GenericResponse(ls, 0)

\* if response_json and not json_contains_carrier_groups(response_json):
\*     response_json = None
ResponseTest(r) ==
    IF Truthy(r) /\ ~json_contains_carrier_groups(r) THEN None ELSE r

\* What response strategy k leaves in response_json.
ResponseStrategy(k, ls) ==
    IF k < 5 THEN ResponseTest(ResponseExtract(k, ls))
    ELSE ResponseExtract(k, ls)

Strategies == 1..5

RECURSIVE RequestFrom(_, _)
RECURSIVE RequestFromLast(_, _)
RECURSIVE ResponseFrom(_, _)

\* "if request_json is None:" before strategy k + 1, r being what the
\* strategies up to k left.
RequestElse(r, k, ls) == IF r # None THEN r ELSE RequestFrom(k + 1, ls)

\* The chain of "if request_json is None:" blocks from strategy k on.
RequestFrom(k, ls) ==
    IF k \notin Strategies THEN None
    ELSE RequestElse(RequestStrategy(k, ls), k, ls)

\* A faulty variant: the strategies are tried from the last to the first.
RequestElseLast(r, k, ls) == IF r # None THEN r ELSE RequestFromLast(k - 1, ls)
RequestFromLast(k, ls) ==
    IF k \notin Strategies THEN None
    ELSE RequestElseLast(RequestStrategy(k, ls), k, ls)
ResolveRequestLastFirst(ls) == RequestFromLast(Max(Strategies), ls)

\* request_json when the request strategies are done
ResolveRequest(ls) == RequestFrom(1, ls)

\* "if response_json is None:" before strategy k + 1.
ResponseElse(r, k, ls) == IF r # None THEN r ELSE ResponseFrom(k + 1, ls)

\* The chain of "if response_json is None:" blocks from strategy k on.
ResponseFrom(k, ls) ==
    IF k \notin Strategies THEN None
    ELSE ResponseElse(ResponseStrategy(k, ls), k, ls)

\* response_json when the response strategies are done
ResolveResponse(ls) == ResponseFrom(1, ls)

-----------------------------------------------------------------------------
(* Python's operations on decoded values *)

\* An exception raised by a lookup.
Raised == [t |-> "raised", v |-> <<>>]

K(name) == <<name>>
Text(word) == Str(<<word>>)

\* x[key]: KeyError when the key is missing, TypeError on what is no dict
\* (a list, a string, a number and None take no string key).
Subscript(x, key) ==
    IF IsDict(x) /\ key \in DOMAIN x.v THEN x.v[key] ELSE Raised

\* x[0]: the first element of a list, the first character of a string;
\* IndexError when empty, KeyError on a dict, TypeError otherwise.
Index0(x) ==
    IF IsList(x) /\ x.v # <<>> THEN x.v[1]
    ELSE IF IsStr(x) /\ x.v # <<>> THEN Str(<<x.v[1]>>)
    ELSE Raised

\* x.get(key, default): AttributeError on what is no dict.
Get(x, key, default) ==
    IF ~IsDict(x) THEN Raised
    ELSE IF key \in DOMAIN x.v THEN x.v[key] ELSE default

\* a or b
Or(a, b) == IF a = Raised THEN Raised ELSE IF Truthy(a) THEN a ELSE b

RECURSIVE SetToSeq(_)
SetToSeq(S) ==
    IF S = {} THEN <<>>
    ELSE LET x == CHOOSE x \in S : TRUE IN <<x>> \o SetToSeq(S \ {x})

\* The elements "for e in x" visits: a list's elements, a dict's keys, a
\* string's characters; TypeError on None, a number and a boolean.
Iter(x) ==
    CASE x.t = "list" -> [raised |-> FALSE, elems |-> x.v]
      [] x.t = "dict" ->
            [raised |-> FALSE,
             elems |-> LET ks == SetToSeq(DOMAIN x.v)
                       IN  [n \in DOMAIN ks |-> Str(ks[n])]]
      [] x.t = "str" ->
            [raised |-> FALSE, elems |-> [n \in DOMAIN x.v |-> Str(<<x.v[n]>>)]]
      [] OTHER -> [raised |-> TRUE, elems |-> <<>>]

\* str(x), as text; a list or a dict is written as its repr, one word here.
PyStr(x) ==
    CASE x.t = "str" -> x.v
      [] x.t = "num" -> x.v
      [] x.t = "none" -> <<"None">>
      [] x.t = "bool" -> IF x.v = <<"true">> THEN <<"True">> ELSE <<"False">>
      [] OTHER -> <<"<repr>">>

\* word.lower() for the attribute names
LowerName(w) ==
    CASE w = "SHIP_LENGTH" -> "ship_length"
      [] w = "Ship_Width" -> "ship_width"
      [] w = "Height" -> "height"
      [] w = "ShipperHQ_Shipping_Group" -> "shipperhq_shipping_group"
      [] OTHER -> w
LowerText(cs) == [n \in DOMAIN cs |-> LowerName(cs[n])]

-----------------------------------------------------------------------------
(* extract_fields *)

\* try: x / except Exception: {}
OrEmptyDict(x) == IF x = Raised THEN EmptyDict ELSE x

\* response_json["carrierGroups"][0]["carrierGroupDetail"]["originAddress"]
OriginAddress(response) ==
    Subscript(
        Subscript(Index0(Subscript(response, KeyCarrierGroups)),
                  K("carrierGroupDetail")),
        K("originAddress"))

\* ship_from
ShipFrom(response) == OrEmptyDict(OriginAddress(response))

\* ship_to, from request_json["destination"]
ShipTo(request) == OrEmptyDict(Subscript(request, KeyDestination))

NA == Text("N/A")

RECURSIVE JoinNotNone(_, _)
\* ", ".join(str(v) for v in vals if v is not None), from element n on
JoinNotNone(vals, n) ==
    IF n > Len(vals) THEN <<>>
    ELSE IF vals[n] = None THEN JoinNotNone(vals, n + 1)
    ELSE IF \A m \in (n + 1)..Len(vals) : vals[m] = None
    THEN PyStr(vals[n])
    ELSE PyStr(vals[n]) \o <<COMMA, SPACE>> \o JoinNotNone(vals, n + 1)

\* val, from attr.get("values") and attr.get("value")
AttributeValue(vals, val) ==
    IF Truthy(vals) /\ IsList(vals)
    THEN Or(Str(JoinNotNone(vals.v, 1)), val)
    ELSE val

\* The if/elif chain on name.  st holds length, width, height,
\* shipping_group and dim_group, and whether a lookup raised.
AttributeSet(st, name, val) ==
    IF name = K("shipperhq_shipping_group")
    THEN [st EXCEPT !.shipping_group = Or(val, NA)]
    ELSE IF name = K("shipperhq_dim_group")
    THEN [st EXCEPT !.dim_group = Or(val, NA)]
    ELSE IF name \in {K("ship_length"), K("shipperhq_length"), K("length")}
    THEN [st EXCEPT !.length = val]
    ELSE IF name \in {K("ship_width"), K("shipperhq_width"), K("width")}
    THEN [st EXCEPT !.width = val]
    ELSE IF name \in {K("ship_height"), K("shipperhq_height"), K("height")}
    THEN [st EXCEPT !.height = val]
    ELSE st

\* (attr.get("name") or "").lower() raises on a name that is no string
AttributeNamed(st, attr, rawName) ==
    IF rawName = Raised \/ ~IsStr(rawName)
    THEN [st EXCEPT !.raised = TRUE]
    ELSE AttributeSet(st, LowerText(rawName.v),
                      AttributeValue(Get(attr, K("values"), None),
                                     Get(attr, K("value"), None)))

\* One attribute of a cart item.
AttributeStep(st, attr) ==
    AttributeNamed(st, attr, Or(Get(attr, K("name"), None), Str(<<>>)))

RECURSIVE AttributesLoop(_, _, _)
AttributesNext(attrs, n, st) ==
    IF st.raised THEN st ELSE AttributesLoop(attrs, n + 1, st)
\* for attr in item.get("attributes", []), from element n on
AttributesLoop(attrs, n, st) ==
    IF n > Len(attrs) THEN st
    ELSE AttributesNext(attrs, n, AttributeStep(st, attrs[n]))

\* A faulty variant: the height is not tested.
DimensionsHeightUntested(st) ==
    IF Truthy(st.length) /\ Truthy(st.width)
    THEN Str(PyStr(st.length) \o <<"x">> \o PyStr(st.width) \o <<"x">>
             \o PyStr(st.height))
    ELSE NA

\* if length and width and height: f"{length}x{width}x{height}" else "N/A"
Dimensions(st) ==
    IF Truthy(st.length) /\ Truthy(st.width) /\ Truthy(st.height)
    THEN Str(PyStr(st.length) \o <<"x">> \o PyStr(st.width) \o <<"x">>
             \o PyStr(st.height))
    ELSE NA

\* The entry appended for an item, or Raised.
CartEntry(item, st) ==
    IF st.raised THEN Raised
    ELSE Dict((K("product") :> Get(item, K("sku"), None))
           @@ (K("qty") :> Get(item, K("qty"), None))
           @@ (K("weight") :> Get(item, K("weight"), None))
           @@ (K("value") :> Get(item, K("rowTotal"), None))
           @@ (K("shipping_group") :> st.shipping_group)
           @@ (K("dim_group") :> st.dim_group)
           @@ (K("dimensions") :> Dimensions(st)))

CartAttributes(item, attrs) ==
    IF attrs.raised THEN Raised
    ELSE CartEntry(item,
             AttributesLoop(attrs.elems, 1,
                 [length |-> None, width |-> None, height |-> None,
                  shipping_group |-> NA, dim_group |-> NA,
                  raised |-> FALSE]))

\* The body of "for item in ..." for one item: the entry, or Raised.
CartItem(item) ==
    IF ~IsDict(item) THEN Raised
    ELSE CartAttributes(item, Iter(Get(item, K("attributes"), List(<<>>))))

RECURSIVE CartLoop(_, _, _)
\* An exception ends the loop and keeps what was appended before it.
CartNext(items, n, acc, e) ==
    IF e = Raised THEN acc ELSE CartLoop(items, n + 1, Append(acc, e))
\* for item in ..., from element n on
CartLoop(items, n, acc) ==
    IF n > Len(items) THEN acc
    ELSE CartNext(items, n, acc, CartItem(items[n]))

CartOver(it) == IF it.raised THEN <<>> ELSE CartLoop(it.elems, 1, <<>>)

\* request_json.get("cart", {}).get("items", [])
GetItems(cart) == Get(cart, K("items"), List(<<>>))

\* cart_items
CartItems(request) == CartOver(Iter(GetItems(Get(request, KeyCart, EmptyDict))))

RECURSIVE pick_shipments(_)
PickFrom(sources, ships) ==
    IF IsList(ships) /\ ships.v # <<>> THEN ships
    ELSE pick_shipments(Tail(sources))
\* The first non-empty "shipments" list among the dict sources.
pick_shipments(sources) ==
    IF sources = <<>> THEN List(<<>>)
    ELSE PickFrom(sources,
                  IF IsDict(Head(sources))
                  THEN Get(Head(sources), K("shipments"), None)
                  ELSE None)

\* carrier.get("carrierName") or carrier.get("carrierTitle")
\*     or "Unknown Carrier"
CarrierName(carrier) ==
    Or(Get(carrier, K("carrierName"), None),
       Or(Get(carrier, K("carrierTitle"), None), Text("Unknown Carrier")))

\* options = (r.get("selectedOptions") or {}).get("options") or []
Options(r) ==
    Or(Get(Or(Get(r, K("selectedOptions"), None), EmptyDict),
           K("options"), None),
       List(<<>>))

\* address_type, or Raised
AddressType(options) ==
    IF options = Raised THEN Raised
    ELSE IF IsList(options) /\ options.v # <<>>
    THEN Get(options.v[1], K("value"), None)
    ELSE None

\* The entry appended for rate r of a carrier, or Raised.
RateEntry(carrier, r, address_type) ==
    IF address_type = Raised THEN Raised
    ELSE Dict((K("carrier") :> CarrierName(carrier))
           @@ (K("service_name") :> Get(r, K("name"), None))
           @@ (K("base") :> Get(r, K("origShippingPrice"),
                                Get(r, K("totalCharges"), None)))
           @@ (K("final") :> Get(r, K("shippingPrice"), None))
           @@ (K("handling") :> Get(r, K("handlingFee"), None))
           @@ (K("negotiated") :> Get(r, K("negotiatedRate"), Bool("false")))
           @@ (K("address_type") :> address_type)
           @@ (K("flat_rules") :> Get(r, K("flatRulesApplied"), List(<<>>)))
           @@ (K("change_rules") :> Get(r, K("changeRulesApplied"),
                                        List(<<>>)))
           @@ (K("packing") :> pick_shipments(<<r, carrier>>))
           @@ (K("blocked_reasons") :> List(<<>>))
           @@ (K("error_message") :> Str(<<>>)))

RateMethod(carrier, r) == RateEntry(carrier, r, AddressType(Options(r)))

\* What a loop gives: the entries appended, and whether it raised.
LoopResult(acc, raised) == [methods |-> acc, raised |-> raised]

RECURSIVE RatesLoop(_, _, _, _)
RatesNext(carrier, rates, n, acc, m) ==
    IF m = Raised THEN LoopResult(acc, TRUE)
    ELSE RatesLoop(carrier, rates, n + 1, Append(acc, m))
\* for r in rates, from element n on
RatesLoop(carrier, rates, n, acc) ==
    IF n > Len(rates) THEN LoopResult(acc, FALSE)
    ELSE IF ~IsDict(rates[n]) THEN RatesLoop(carrier, rates, n + 1, acc)
    ELSE RatesNext(carrier, rates, n, acc, RateMethod(carrier, rates[n]))

\* err_msg = err.get("internalErrorMessage")
\*     or err.get("externalErrorMessage") or ""
ErrMsg(err) ==
    Or(Get(err, K("internalErrorMessage"), None),
       Or(Get(err, K("externalErrorMessage"), None), Str(<<>>)))

\* The entry of a carrier without rates that is blocked or in error; None
\* when it is neither; Raised.
BlockedEntry(carrier, prevent, err_msg) ==
    IF err_msg = Raised THEN Raised
    ELSE IF ~(Truthy(prevent) \/ Truthy(err_msg)) THEN None
    ELSE Dict((K("carrier") :> CarrierName(carrier))
           @@ (K("service_name") :>
                  Or(Get(carrier, K("carrierTitle"), None),
                     CarrierName(carrier)))
           @@ (K("base") :> None)
           @@ (K("final") :> None)
           @@ (K("handling") :> None)
           @@ (K("negotiated") :> Get(carrier, K("negotiatedRate"),
                                      Bool("false")))
           @@ (K("address_type") :> None)
           @@ (K("flat_rules") :> List(<<>>))
           @@ (K("change_rules") :> List(<<>>))
           @@ (K("packing") :> pick_shipments(<<carrier>>))
           @@ (K("blocked_reasons") :> prevent)
           @@ (K("error_message") :> err_msg))

\* The "if not rates:" block.
BlockedMethod(carrier) ==
    BlockedEntry(carrier,
                 Or(Get(carrier, K("preventRulesApplied"), None), List(<<>>)),
                 ErrMsg(Or(Get(carrier, K("error"), None), EmptyDict)))

BlockedAppend(acc, b) ==
    IF b = Raised THEN LoopResult(acc, TRUE)
    ELSE IF b = None THEN LoopResult(acc, FALSE)
    ELSE LoopResult(Append(acc, b), FALSE)

\* After the rates: "if not rates:".
AfterRates(carrier, rates, got) ==
    IF got.raised \/ Truthy(rates) THEN got
    ELSE BlockedAppend(got.methods, BlockedMethod(carrier))

RatesOver(carrier, rates, it, acc) ==
    IF it.raised THEN LoopResult(acc, TRUE)
    ELSE AfterRates(carrier, rates, RatesLoop(carrier, it.elems, 1, acc))

CarrierRates(carrier, rates, acc) == RatesOver(carrier, rates, Iter(rates), acc)

\* The body of "for carrier in ..." for one carrier that is a dict.
CarrierMethods(carrier, acc) ==
    CarrierRates(carrier, Or(Get(carrier, K("rates"), None), List(<<>>)), acc)

RECURSIVE CarriersLoop(_, _, _)
CarriersNext(carriers, n, got) ==
    IF got.raised THEN got ELSE CarriersLoop(carriers, n + 1, got.methods)
\* for carrier in group.get("carrierRates", []), from element n on
CarriersLoop(carriers, n, acc) ==
    IF n > Len(carriers) THEN LoopResult(acc, FALSE)
    ELSE IF ~IsDict(carriers[n]) THEN CarriersLoop(carriers, n + 1, acc)
    ELSE CarriersNext(carriers, n, CarrierMethods(carriers[n], acc))

RECURSIVE GroupsLoop(_, _, _)
GroupsNext(groups, n, got) ==
    IF got.raised THEN got ELSE GroupsLoop(groups, n + 1, got.methods)
GroupCarriers(groups, n, acc, it) ==
    IF it.raised THEN LoopResult(acc, TRUE)
    ELSE GroupsNext(groups, n, CarriersLoop(it.elems, 1, acc))
\* for group in response_json.get("carrierGroups", []), from element n on
GroupsLoop(groups, n, acc) ==
    IF n > Len(groups) THEN LoopResult(acc, FALSE)
    ELSE IF ~IsDict(groups[n]) THEN GroupsLoop(groups, n + 1, acc)
    ELSE GroupCarriers(groups, n, acc,
                       Iter(Get(groups[n], K("carrierRates"), List(<<>>))))

MethodsOver(it) ==
    IF it.raised THEN <<>> ELSE GroupsLoop(it.elems, 1, <<>>).methods

\* methods: what was appended when the loops ended or an exception was
\* caught.
Methods(response) ==
    MethodsOver(Iter(Get(response, KeyCarrierGroups, List(<<>>))))

extract_fields(request, response) ==
    Dict((K("Ship From") :> ShipFrom(response))
      @@ (K("Ship To") :> ShipTo(request))
      @@ (K("Cart") :> List(CartItems(request)))
      @@ (K("Methods") :> List(Methods(response))))

-----------------------------------------------------------------------------
(* generate_report *)

\* sep.join(x) does not raise: x is a list of strings, a string or a dict.
CanJoin(x) ==
    \/ IsStr(x) \/ IsDict(x)
    \/ IsList(x) /\ \A n \in DOMAIN x.v : IsStr(x.v[n])

\* A key of a dict must be hashable: no list, no dict.
Hashable(x) == ~IsList(x) /\ ~IsDict(x)

\* sku = bi.get("sku") or bi.get("itemId") or "item"; " ".join([sku, ...])
BoxedItemRenders(bi) ==
    /\ IsDict(bi)
    /\ IsStr(Or(Get(bi, K("sku"), None),
                Or(Get(bi, K("itemId"), None), Text("item"))))

BoxedRender(it) ==
    /\ ~it.raised
    /\ \A n \in DOMAIN it.elems : BoxedItemRenders(it.elems[n])

\* The lines written for one box do not raise.
BoxRenders(pack) ==
    /\ IsDict(pack)
    /\ BoxedRender(Iter(Or(Get(pack, K("boxedItems"), None), List(<<>>))))

\* The block written for method m does not raise.
MethodRenders(m) ==
    /\ Truthy(m.v[K("flat_rules")]) => CanJoin(m.v[K("flat_rules")])
    /\ Truthy(m.v[K("change_rules")]) => CanJoin(m.v[K("change_rules")])
    /\ Truthy(m.v[K("blocked_reasons")]) => CanJoin(m.v[K("blocked_reasons")])
    /\ Truthy(m.v[K("error_message")]) => IsStr(m.v[K("error_message")])

\* The methods of the carrier named name that have a non-empty packing.
WithPacking(methods, name) ==
    {n \in DOMAIN methods :
        /\ methods[n].v[K("carrier")] = name
        /\ Truthy(methods[n].v[K("packing")])}

FirstPacking(methods, with) ==
    IF with = {} THEN <<>> ELSE methods[Min(with)].v[K("packing")].v

\* entry["packing"] of the carrier named name: the packing of its first
\* method that has one.
CarrierPacking(methods, name) ==
    FirstPacking(methods, WithPacking(methods, name))

PackingRenders(packings) ==
    \A b \in DOMAIN packings : BoxRenders(packings[b])

\* generate_report raises on these methods.
MethodsRaise(methods) ==
    \E n \in DOMAIN methods :
        \/ ~Hashable(methods[n].v[K("carrier")])
        \/ ~MethodRenders(methods[n])
        \/ ~PackingRenders(CarrierPacking(methods, methods[n].v[K("carrier")]))

\* generate_report(summary) raises.
ReportRaises(s) ==
    \/ ~IsDict(s.v[K("Ship From")])
    \/ ~IsDict(s.v[K("Ship To")])
    \/ MethodsRaise(s.v[K("Methods")].v)

\* What generate_report(summary) gives: the sections it renders, or
\* Raised.  The text layout itself is not modelled.
generate_report(s) ==
    IF ReportRaises(s) THEN Raised
    ELSE [t |-> "report",
          v |-> <<s.v[K("Ship From")], s.v[K("Ship To")], s.v[K("Cart")],
                  s.v[K("Methods")]>>]

-----------------------------------------------------------------------------
(* The sanitizer on its own: every text of at most MaxLen characters *)

MaxLen == 4

SanAlphabet == {LB, RB, COLON, COMMA, QUOTE, BSL, LBRACK, "1", "n",
                LF, CR, ESC, SOH}

Texts(alphabet, n) == UNION {[1..k -> alphabet] : k \in 0..n}

\* The variables a specification does not use keep these values.
IdleSan ==
    /\ block = <<>> /\ sanitized = <<>> /\ resanitized = <<>>
    /\ decoded = None
IdleCollect == start_index = 0 /\ collected = None
IdleExtract ==
    /\ marker = "" /\ require_keys = <<>> /\ first = TRUE
    /\ extracted = None
IdleMain ==
    /\ entries = <<>> /\ request_json = None /\ response_json = None
    /\ summary = None /\ report = None /\ exit_code = 0
    /\ out_file = FALSE

InitSan ==
    /\ pc = "san_input"
    /\ block \in Texts(SanAlphabet, MaxLen)
    /\ sanitized = <<>> /\ resanitized = <<>> /\ decoded = None
    /\ lines = <<>>
    /\ IdleCollect /\ IdleExtract /\ IdleMain

\* sanitized = sanitize_json_block(raw_block); json.loads(sanitized)
SanitizeBlock ==
    /\ pc = "san_input"
    /\ sanitized' = sanitize_json_block(block)
    /\ decoded' = JsonLoads(sanitized')
    /\ pc' = "sanitized"
    /\ UNCHANGED <<block, resanitized, lines, collectVars, extractVars,
                   mainVars>>

\* The sanitizer applied to its own output.
SanitizeAgain ==
    /\ pc = "sanitized"
    /\ resanitized' = sanitize_json_block(sanitized)
    /\ pc' = "resanitized"
    /\ UNCHANGED <<block, sanitized, decoded, lines, collectVars,
                   extractVars, mainVars>>

NextSan == SanitizeBlock \/ SanitizeAgain

SpecSan == InitSan /\ [][NextSan]_vars

Range(t) == {t[i] : i \in DOMAIN t}

\* Position i of t lies in a match of the ANSI pattern: <ESC>, one
\* introducer, parameters up to p, intermediates up to e, one final at e.
IsAnsiMatch(t, s, e) ==
    /\ t[s] = ESC /\ s + 2 <= e /\ e <= Len(t)
    /\ t[s + 1] \in AnsiIntro /\ t[e] \in AnsiFinal
    /\ \E p \in (s + 2)..e :
          /\ \A k \in (s + 2)..(p - 1) : t[k] \in AnsiParam
          /\ \A k \in p..(e - 1) : t[k] \in AnsiInter
InAnsiMatch(t, i) ==
    \E s \in 1..i : \E e \in i..Len(t) : IsAnsiMatch(t, s, e)

RECURSIVE KeptOutsideAnsi(_, _, _)
\* The characters of t from i on that are in keep and in no ANSI match.
KeptOutsideAnsi(t, i, keep) ==
    IF i > Len(t) THEN <<>>
    ELSE (IF t[i] \in keep /\ ~InAnsiMatch(t, i) THEN <<t[i]>> ELSE <<>>)
         \o KeptOutsideAnsi(t, i + 1, keep)

RECURSIVE Only(_, _)
\* The characters of t that are in keep, in order.
Only(t, keep) ==
    IF t = <<>> THEN <<>>
    ELSE (IF Head(t) \in keep THEN <<Head(t)>> ELSE <<>>)
         \o Only(Tail(t), keep)

Structural == {LB, RB, COLON, COMMA}
\* Printable characters that no replacement of the sanitizer writes.
PassThrough == Structural \cup {QUOTE, LBRACK, RBRACK} \cup Digits

BackslashRun(t, i) ==
    CHOOSE k \in 0..(i - 1) :
        /\ \A j \in (i - k)..(i - 1) : t[j] = BSL
        /\ (i - k - 1 >= 1 => t[i - k - 1] # BSL)
\* The character at i is the one a backslash escapes.
IsEscaped(t, i) == BackslashRun(t, i) % 2 = 1
\* t is one double-quoted string literal: it opens at 1 and closes at its end.
IsStringLiteral(t) ==
    /\ Len(t) >= 2 /\ t[1] = QUOTE
    /\ \A i \in 2..Len(t) :
          (t[i] = QUOTE /\ ~IsEscaped(t, i)) <=> i = Len(t)

\* C8 as stated: a string literal with a raw newline in its content is
\* sanitized to a text with no raw newline, which decodes to a string
\* holding the newline.
C8_NoRawNewlineInLiteral ==
    (pc # "san_input" /\ IsStringLiteral(block) /\ LF \in Range(block)) =>
        /\ LF \notin Range(sanitized)
        /\ IsStr(decoded) /\ LF \in Range(decoded.v)

\* C8, amended: when the text with its ANSI sequences stripped is a string
\* literal whose raw newlines are not the character a backslash escapes,
\* no raw newline remains in the output; and when the literal's escapes
\* are valid JSON escapes the output decodes to the literal's content (raw
\* newlines and carriage returns as themselves, other control characters
\* as a space), newline included.
C8_UnescapedNewlineRoundTrip ==
    LET s == StripAnsi(block)
        lenient == Decode(s, FALSE)
    IN  (/\ pc # "san_input"
         /\ IsStringLiteral(s)
         /\ \E i \in DOMAIN s : s[i] = LF
         /\ \A i \in DOMAIN s : s[i] = LF => ~IsEscaped(s, i)) =>
            /\ LF \notin Range(sanitized)
            /\ IsStr(lenient) =>
                  /\ IsStr(decoded)
                  /\ Len(decoded.v) = Len(lenient.v)
                  /\ LF \in Range(decoded.v)
                  /\ \A k \in DOMAIN lenient.v :
                        \/ decoded.v[k] = lenient.v[k]
                        \/ /\ lenient.v[k] \in ControlChars \ {LF, CR}
                           /\ decoded.v[k] = SPACE

\* A string literal with a raw newline in it, sanitized and decoded to a
\* string that holds the newline.
C8_Witness ==
    /\ pc = "sanitized"
    /\ IsStringLiteral(block) /\ LF \in Range(block)
    /\ \A i \in DOMAIN block : block[i] = LF => ~IsEscaped(block, i)
    /\ IsStr(decoded) /\ LF \in Range(decoded.v)

IsValidJson(t) == JsonLoads(t) # DecodeError

\* C9: on valid JSON text the sanitizer applied twice gives what it gives
\* applied once.
C9_IdempotentOnValidJson ==
    (pc = "resanitized" /\ IsValidJson(block)) => resanitized = sanitized

\* Valid JSON text that the first pass changes (a carriage return between
\* tokens is dropped), sanitized twice.
C9_Witness ==
    /\ pc = "resanitized" /\ IsValidJson(block)
    /\ sanitized # block

\* Valid JSON text with a backslash escape in a string, sanitized twice.
C9_WitnessEscape ==
    /\ pc = "resanitized" /\ IsValidJson(block)
    /\ BSL \in Range(block)

-----------------------------------------------------------------------------
(* The collector on its own: every list of at most MaxLines lines *)

MaxLines == 3

\* {"cart":n} and {"cart":n,"destination":n}
CartObject(n) == <<LB, QUOTE, "cart", QUOTE, COLON, n, RB>>
CartDestinationObject(n) ==
    <<LB, QUOTE, "cart", QUOTE, COLON, n, COMMA,
      QUOTE, "destination", QUOTE, COLON, n, RB>>

CollectLines ==
    {<<LB, RB>>,
     <<LB>>,
     <<RB>>,
     <<SPACE, LB>>,
     <<MsgInfo>>,
     <<LB, RB, RB>>,
     <<QUOTE, "cart", QUOTE, COLON, "1">>,
     <<LB, QUOTE, RB, QUOTE, COLON, "1", RB>>,
     <<ESC, LBRACK, "1", "m", RB>>}

InitCollect ==
    /\ pc = "collect_input"
    /\ lines \in Texts(CollectLines, MaxLines)
    /\ start_index \in 0..(Len(lines) + 1)
    /\ collected = None
    /\ IdleSan /\ IdleExtract /\ IdleMain

\* collect_json_from_line_list(lines, start_index)
Collect ==
    /\ pc = "collect_input"
    /\ collected' = CollectRun(lines, start_index)
    /\ pc' = "collected"
    /\ UNCHANGED <<lines, start_index, sanVars, extractVars, mainVars>>

NextCollect == Collect

SpecCollect == InitCollect /\ [][NextCollect]_vars

\* Lexical brace balance of a text.
Balance(t) == Count(t, LB) - Count(t, RB)
\* The lines at or after start_index whose stripped content begins with "{".
JsonStarts ==
    {j \in start_index..(Len(lines) - 1) :
        StartsWithBrace(Lstrip(LineAt(lines, j)))}
\* Lines s..j as the collector joins them: the first one stripped.
Span(s, j) ==
    Join(<<Lstrip(LineAt(lines, s))>> \o SubSeq(lines, s + 2, j + 1), LF)
\* The lines at which the balance of the text from line s on is zero.
BalancedEnds(s) == {j \in s..(Len(lines) - 1) : Balance(Span(s, j)) = 0}

\* C5: a block handed to the sanitizer has brace balance zero and "{" as
\* its first non-blank character; it runs from the first line at or after
\* start_index that begins with "{" to the first line at which the running
\* balance is back to zero.
C5_BlockBalancedFromFirstBrace ==
    (pc = "collected" /\ collected.handed) =>
        LET b == collected.raw_block
        IN  /\ Balance(b) = 0
            /\ SkipWs(b, 1) <= Len(b) /\ b[SkipWs(b, 1)] = LB
            /\ JsonStarts # {}
            /\ collected.from = Min(JsonStarts)
            /\ BalancedEnds(Min(JsonStarts)) # {}
            /\ collected.to = Min(BalancedEnds(Min(JsonStarts)))
            /\ b = Span(collected.from, collected.to)

\* A block of several lines that starts after start_index, past lines
\* that do not begin with "{", is handed to the sanitizer.
C5_Witness ==
    /\ pc = "collected" /\ collected.handed
    /\ collected.from > start_index
    /\ collected.to > collected.from

C6_WitnessDecoded ==
    /\ pc = "collected" /\ collected.outcome = "decoded"
    /\ collected.value # EmptyDict
C6_WitnessEof == pc = "collected" /\ collected.outcome = "eof"
C6_WitnessNoStart ==
    pc = "collected" /\ collected.outcome = "no_start" /\ lines # <<>>

-----------------------------------------------------------------------------
(* The extractor on its own *)

ExtractLines ==
    {<<MsgRequest>>,
     <<MsgRequest, SPACE, LB, RB>>,
     <<MsgRequest, SPACE>> \o CartObject("1"),
     CartObject("2"),
     CartDestinationObject("3"),
     <<LB>>,
     <<MsgInfo>>,
     <<MsgResponse>>,
     <<MsgResponse, SPACE>> \o CartObject("4")}

InitExtract ==
    /\ pc = "extract_input"
    /\ lines \in Texts(ExtractLines, MaxLines)
    /\ marker \in {MsgRequest, MsgResponse}
    /\ require_keys \in {<<>>, <<KeyCart>>, <<KeyCart, KeyDestination>>}
    /\ first \in BOOLEAN
    /\ extracted = None
    /\ IdleSan /\ IdleCollect /\ IdleMain

\* extract_json_after_marker(lines, marker, require_keys, first)
Extract ==
    /\ pc = "extract_input"
    /\ extracted' = extract_json_after_marker(lines, marker, require_keys,
                                              first)
    /\ pc' = "extracted"
    /\ UNCHANGED <<lines, marker, require_keys, first, sanVars, collectVars,
                   mainVars>>

NextExtract == Extract

SpecExtract == InitExtract /\ [][NextExtract]_vars

\* The lines that contain the marker.
Matches == {i \in 0..(Len(lines) - 1) : Contains(LineAt(lines, i), marker)}
\* The matches whose object is collected and has every required key.
Satisfying ==
    {i \in Matches :
        /\ CollectAtMatch(lines, i) # None
        /\ \A n \in DOMAIN require_keys :
              require_keys[n] \in DOMAIN CollectAtMatch(lines, i).v}

\* C4: the result is the object of the earliest (first) or latest (not
\* first) marker line whose object is collected and has every required
\* key, whatever the matches visited before it gave; it is None exactly
\* when there is no such line.
C4_FirstSatisfyingMatch ==
    pc = "extracted" =>
        IF Satisfying = {} THEN extracted = None
        ELSE /\ extracted # None
             /\ extracted = CollectAtMatch(lines,
                    IF first THEN Min(Satisfying) ELSE Max(Satisfying))

\* A search that skips a match that collects nothing and one that lacks a
\* required key before it returns a later match's object.
C4_Witness ==
    /\ pc = "extracted" /\ extracted # None
    /\ \E i \in Matches : CollectAtMatch(lines, i) = None
    /\ \E i \in Matches \ Satisfying : CollectAtMatch(lines, i) # None
    /\ Cardinality(Matches) = 3

-----------------------------------------------------------------------------
(* The program: a log of at most MaxEntries entries is parsed, rendered
   and written *)

MaxEntries == 3

\* {"cart":{},"destination":{"zipcode":n}}
RequestText(n) ==
    <<LB, QUOTE, "cart", QUOTE, COLON, LB, RB, COMMA,
      QUOTE, "destination", QUOTE, COLON,
      LB, QUOTE, "zipcode", QUOTE, COLON, n, RB, RB>>
RequestValue(n) ==
    Dict((KeyCart :> EmptyDict)
      @@ (KeyDestination :> Dict(K("zipcode") :> Num(<<n>>))))

\* {"carrierGroups":[n]}
ResponseText(n) ==
    <<LB, QUOTE, "carrierGroups", QUOTE, COLON, LBRACK, n, RBRACK, RB>>
ResponseValue(n) == Dict(KeyCarrierGroups :> List(<<Num(<<n>>)>>))

\* {"rate":{"carrierGroups":[n]}}
DeepResponseText(n) ==
    <<LB, QUOTE, "rate", QUOTE, COLON>> \o ResponseText(n) \o <<RB>>
\* {"status":n}
PartialText(n) == <<LB, QUOTE, "status", QUOTE, COLON, n, RB>>

TierDigit(k) ==
    CASE k = 1 -> "1" [] k = 2 -> "2" [] k = 3 -> "3" [] k = 4 -> "4"
      [] OTHER -> "5"

Entry(side, tier, kind, layout) ==
    [side |-> side, tier |-> tier, kind |-> kind, layout |-> layout]

\* The log entries a log is written from: a well-formed pair for each
\* strategy, and what a log holds besides.
EntryPalette ==
    {Entry("request", k, "good", "inline") : k \in Strategies}
    \cup {Entry("response", k, "good", "inline") : k \in Strategies}
    \cup {Entry("request", 4, "good", "next"),
          Entry("response", 4, "good", "next"),
          Entry("response", 1, "empty", "inline"),
          Entry("response", 4, "empty", "inline"),
          Entry("response", 1, "partial", "inline"),
          Entry("response", 2, "deep", "inline"),
          Entry("request", 1, "cart_only", "inline"),
          Entry("request", 1, "truncated", "inline"),
          Entry("request", 1, "caps", "inline"),
          Entry("info", 0, "noise", "inline")}

\* The JSON text an entry logs.
EntryText(e) ==
    CASE e.kind = "good" /\ e.side = "request" -> RequestText(TierDigit(e.tier))
      [] e.kind = "good" /\ e.side = "response" ->
            ResponseText(TierDigit(e.tier))
      [] e.kind = "caps" -> RequestText(TierDigit(e.tier))
      [] e.kind = "deep" -> DeepResponseText(TierDigit(e.tier))
      [] e.kind = "partial" -> PartialText(TierDigit(e.tier))
      [] e.kind = "cart_only" -> CartObject(TierDigit(e.tier))
      [] e.kind = "truncated" -> <<LB, QUOTE, "cart", QUOTE, COLON>>
      [] OTHER -> <<LB, RB>>

EntryMarker(e) ==
    IF e.kind = "caps" THEN MsgShopifyRequestCaps
    ELSE IF e.side = "request" THEN RequestMarker(e.tier)
    ELSE ResponseMarker(e.tier)

\* The lines an entry writes: the message and the JSON on one line, or
\* the JSON on the line after the message.
EntryLines(e) ==
    IF e.kind = "noise" THEN <<<<MsgInfo>>>>
    ELSE IF e.layout = "inline"
    THEN <<<<MsgInfo, SPACE, EntryMarker(e), COLON, SPACE>> \o EntryText(e)>>
    ELSE <<<<MsgInfo, SPACE, EntryMarker(e), COLON>>, EntryText(e)>>

RECURSIVE RenderLog(_)
RenderLog(es) ==
    IF es = <<>> THEN <<>> ELSE EntryLines(Head(es)) \o RenderLog(Tail(es))

Init ==
    /\ pc = "start"
    /\ entries \in Texts(EntryPalette, MaxEntries)
    /\ lines = RenderLog(entries)
    /\ request_json = None /\ response_json = None
    /\ summary = None /\ report = None
    /\ exit_code = 0 /\ out_file = FALSE
    /\ IdleSan /\ IdleCollect /\ IdleExtract

\* summary = parse_log_file(log_path); it raises when no request or no
\* response is resolved.
ParseLogFile ==
    /\ pc = "start"
    /\ request_json' = ResolveRequest(lines)
    /\ response_json' = IF request_json' = None THEN None
                        ELSE ResolveResponse(lines)
    /\ IF request_json' = None \/ response_json' = None
       THEN summary' = None /\ pc' = "failed"
       ELSE /\ summary' = extract_fields(request_json', response_json')
            /\ pc' = "parsed"
    /\ UNCHANGED <<entries, lines, report, exit_code, out_file, sanVars,
                   collectVars, extractVars>>

\* report = generate_report(summary)
GenerateReport ==
    /\ pc = "parsed"
    /\ report' = generate_report(summary)
    /\ pc' = IF report' = Raised THEN "failed" ELSE "rendered"
    /\ UNCHANGED <<entries, lines, request_json, response_json, summary,
                   exit_code, out_file, sanVars, collectVars, extractVars>>

\* with open(out_path, "w") as f: f.write(report)
WriteReport ==
    /\ pc = "rendered"
    /\ out_file' = TRUE
    /\ pc' = "done"
    /\ UNCHANGED <<entries, lines, request_json, response_json, summary,
                   report, exit_code, sanVars, collectVars, extractVars>>

\* except Exception: sys.exit(1)
ExitOnError ==
    /\ pc = "failed"
    /\ exit_code' = 1
    /\ pc' = "done"
    /\ UNCHANGED <<entries, lines, request_json, response_json, summary,
                   report, out_file, sanVars, collectVars, extractVars>>

Next == ParseLogFile \/ GenerateReport \/ WriteReport \/ ExitOnError

Spec == Init /\ [][Next]_vars

\* The log holds well-formed pairs only, at most one for each strategy.
WellFormedLog ==
    /\ \A n \in DOMAIN entries : entries[n].kind = "good"
    /\ \A m, n \in DOMAIN entries :
          (/\ m # n
           /\ entries[m].side = entries[n].side) =>
              entries[m].tier # entries[n].tier

\* The strategies of one side that have a pair in the log.
TiersPresent(side) ==
    {entries[n].tier : n \in {m \in DOMAIN entries : entries[m].side = side}}

C1_WitnessResponse ==
    /\ pc = "done" /\ out_file /\ WellFormedLog
    /\ \E m, n \in DOMAIN entries :
          /\ m < n
          /\ entries[m].side = "response" /\ entries[n].side = "response"
          /\ entries[m].tier > entries[n].tier
          /\ response_json = ResponseValue(TierDigit(entries[n].tier))

\* C2: a response that parse_log_file resolves holds a carrierGroups key
\* at some depth.
C2_ResolvedResponseHasCarrierGroups ==
    response_json # None => json_contains_carrier_groups(response_json)

\* The response strategies that give an object holding carrierGroups.
SucceedingResponseStrategies ==
    {k \in Strategies : json_contains_carrier_groups(ResponseExtract(k, lines))}
\* The request strategies that give an object.
SucceedingRequestStrategies ==
    {k \in Strategies : RequestStrategy(k, lines) # None}

\* C3: when every request strategy fails or every response strategy
\* fails, the run ends with exit code 1 and writes no file.
C3_ExhaustedExitsWithoutFile ==
    (/\ pc = "done"
     /\ \/ SucceedingRequestStrategies = {}
        \/ SucceedingResponseStrategies = {}) =>
        exit_code = 1 /\ ~out_file

-----------------------------------------------------------------------------
(* Normalization and rendering on their own: a resolved request and
   response with fields present, absent and of the wrong type *)

\* The object with the members ps, a sequence of <<key, value>>.
Obj(ps) ==
    Dict([k \in {ps[n][1] : n \in DOMAIN ps} |->
             ps[CHOOSE n \in DOMAIN ps : ps[n][1] = k][2]])

Attribute(name, value) == Obj(<<<<K("name"), name>>, <<K("value"), value>>>>)

\* The cart items.
FieldItems ==
    {Obj(<<<<K("sku"), Text("A1")>>, <<K("qty"), Num(<<"2">>)>>>>),
     Obj(<<<<K("sku"), Text("A1")>>,
           <<K("attributes"),
             List(<<Attribute(Text("SHIP_LENGTH"), Num(<<"1">>)),
                    Attribute(Text("Ship_Width"), Num(<<"2">>)),
                    Attribute(Text("Height"), Num(<<"3">>))>>)>>>>),
     Obj(<<<<K("sku"), Text("A1")>>,
           <<K("attributes"),
             List(<<Attribute(Text("ShipperHQ_Shipping_Group"), None),
                    Obj(<<<<K("name"), Text("shipperhq_dim_group")>>,
                          <<K("values"),
                            List(<<Text("a"), None, Text("b")>>)>>>>)>>)>>>>),
     Obj(<<<<K("attributes"),
             List(<<Attribute(Text("length"), Num(<<"1">>)),
                    Attribute(Text("width"), Num(<<"2">>))>>)>>>>),
     Obj(<<<<K("attributes"),
             List(<<Attribute(Text("length"), Num(<<"1">>)),
                    Attribute(Text("width"), Num(<<"0">>)),
                    Attribute(Text("height"), Num(<<"3">>))>>)>>>>),
     Obj(<<<<K("attributes"),
             List(<<Attribute(Text("length"), Str(<<>>)),
                    Attribute(Text("width"), Text("2")),
                    Attribute(Text("height"), Text("3"))>>)>>>>),
     Obj(<<<<K("attributes"),
             List(<<Attribute(Text("length"), Num(<<"1">>)),
                    Attribute(Text("width"), Num(<<"2">>)),
                    Attribute(Text("height"), Num(<<"3">>)),
                    Attribute(Text("SHIP_LENGTH"), Text("4")),
                    Attribute(Text("Height"), None)>>)>>>>),
     Obj(<<<<K("attributes"),
             List(<<Obj(<<<<K("name"), Text("length")>>,
                          <<K("values"),
                            List(<<Num(<<"1">>), None, Num(<<"2">>)>>)>>>>),
                    Attribute(Text("width"), Num(<<"2">>)),
                    Attribute(Text("Height"), Bool("true")),
                    Attribute(Text("length"), None),
                    Attribute(Text("SHIP_LENGTH"), Text("4"))>>)>>>>),
     Obj(<<<<K("attributes"), None>>>>),
     Obj(<<<<K("attributes"), List(<<Attribute(Num(<<"5">>), None)>>)>>>>),
     Obj(<<<<K("attributes"), List(<<Text("x")>>)>>>>),
     Text("x")}

\* What the request holds under "cart".
FieldCarts ==
    {EmptyDict, None, Num(<<"1">>),
     Obj(<<<<K("items"), None>>>>),
     Obj(<<<<K("items"), List(<<>>)>>>>)}
    \cup {Obj(<<<<K("items"), List(<<i>>)>>>>) : i \in FieldItems}
    \cup {Obj(<<<<K("items"),
                  List(<<CHOOSE i \in FieldItems : IsStr(i), j>>)>>>>) :
             j \in {i \in FieldItems : IsDict(i)}}

\* What the request holds under "destination".
FieldDestinations ==
    {EmptyDict, Obj(<<<<K("city"), Text("Reno")>>>>), None, Text("x"),
     List(<<>>)}

\* The resolved requests: each has "cart"; those of strategies 3 and 4
\* may lack "destination".
FieldRequests ==
    {Obj(<<<<KeyCart, c>>>>) : c \in FieldCarts}
    \cup {Obj(<<<<KeyCart, c>>, <<KeyDestination, d>>>>) :
             c \in FieldCarts, d \in FieldDestinations}

Box(items) == Obj(<<<<K("name"), Text("box")>>, <<K("boxedItems"), items>>>>)

\* What a rate or a carrier holds under "shipments".
FieldShipments ==
    {List(<<>>), None,
     List(<<Box(List(<<Obj(<<<<K("sku"), Text("A1")>>>>)>>))>>),
     List(<<Box(None)>>),
     List(<<Box(List(<<Obj(<<<<K("sku"), Num(<<"5">>)>>>>)>>))>>),
     List(<<Box(List(<<Text("x")>>))>>),
     List(<<Box(Num(<<"5">>))>>),
     List(<<Num(<<"5">>)>>)}

Rate(ps) == Obj(<<<<K("name"), Text("Ground")>>>> \o ps)

\* The rates of a carrier.
FieldRates ==
    {Rate(<<>>), Text("x"),
     Rate(<<<<K("shippingPrice"), Num(<<"1">>)>>,
            <<K("negotiatedRate"), Bool("true")>>>>),
     Rate(<<<<K("selectedOptions"),
              Obj(<<<<K("options"),
                      List(<<Obj(<<<<K("value"), Text("res")>>>>)>>)>>>>)>>>>),
     Rate(<<<<K("selectedOptions"), Text("x")>>>>),
     Rate(<<<<K("selectedOptions"),
              Obj(<<<<K("options"), List(<<Text("x")>>)>>>>)>>>>),
     Rate(<<<<K("flatRulesApplied"), List(<<Text("rule")>>)>>>>),
     Rate(<<<<K("flatRulesApplied"), List(<<Num(<<"5">>)>>)>>>>),
     Rate(<<<<K("changeRulesApplied"), Num(<<"5">>)>>>>),
     Rate(<<<<K("changeRulesApplied"), None>>>>)}
    \cup {Rate(<<<<K("shipments"), sh>>>>) : sh \in FieldShipments}

\* A rate whose first selected option is no object: the lookup of its value
\* fails.
MalformedRate ==
    Rate(<<<<K("selectedOptions"),
             Obj(<<<<K("options"), List(<<Text("x")>>)>>>>)>>>>)

AirRate == Obj(<<<<K("name"), Text("Air")>>>>)

Carrier(ps) == Obj(<<<<K("carrierName"), Text("UPS")>>>> \o ps)

\* A carrier without rates that a prevent rule blocks.
BlockedCarrier ==
    Obj(<<<<K("carrierName"), Text("FedEx")>>,
          <<K("preventRulesApplied"), List(<<Text("rule")>>)>>>>)

\* A carrier other than UPS with one rate.
RatedCarrier ==
    Obj(<<<<K("carrierName"), Text("FedEx")>>,
          <<K("rates"), List(<<AirRate>>)>>>>)

\* The carriers of a group.
FieldCarriers ==
    {Carrier(<<>>), Text("x"),
     Obj(<<<<K("carrierTitle"), Text("UPS Ground")>>,
           <<K("preventRulesApplied"), List(<<Text("rule")>>)>>>>),
     Obj(<<<<K("carrierName"), List(<<Text("UPS")>>)>>,
           <<K("rates"), List(<<Rate(<<>>)>>)>>>>),
     Carrier(<<<<K("rates"), Num(<<"5">>)>>>>),
     Carrier(<<<<K("rates"), None>>,
               <<K("preventRulesApplied"), Num(<<"5">>)>>>>),
     Carrier(<<<<K("preventRulesApplied"), List(<<Num(<<"5">>)>>)>>>>),
     Carrier(<<<<K("error"), Text("x")>>>>),
     Carrier(<<<<K("error"),
                 Obj(<<<<K("internalErrorMessage"), Text("boom")>>>>)>>,
               <<K("shipments"),
                 List(<<Box(List(<<Obj(<<<<K("sku"), Text("A1")>>>>)>>))>>)>>>>),
     Carrier(<<<<K("error"),
                 Obj(<<<<K("externalErrorMessage"), Num(<<"5">>)>>>>)>>>>),
     Carrier(<<<<K("rates"), List(<<Rate(<<>>), Num(<<"5">>)>>)>>,
               <<K("shipments"), List(<<Num(<<"5">>)>>)>>>>),
     BlockedCarrier,
     Carrier(<<<<K("preventRulesApplied"), List(<<Text("rule")>>)>>,
               <<K("error"), Text("x")>>>>),
     Carrier(<<<<K("preventRulesApplied"), List(<<Text("rule")>>)>>,
               <<K("error"),
                 Obj(<<<<K("externalErrorMessage"), Text("boom")>>>>)>>>>),
     Carrier(<<<<K("rates"), List(<<>>)>>,
               <<K("preventRulesApplied"), List(<<>>)>>>>),
     Carrier(<<<<K("rates"), List(<<>>)>>, <<K("error"), EmptyDict>>>>),
     Carrier(<<<<K("rates"), List(<<Rate(<<>>), AirRate>>)>>>>),
     Carrier(<<<<K("rates"), List(<<MalformedRate, AirRate>>)>>>>)}
    \cup {Carrier(<<<<K("rates"), List(<<r>>)>>>>) : r \in FieldRates}

\* What a group holds under "carrierRates".
FieldCarrierRates ==
    {List(<<>>), None, Num(<<"5">>)}
    \cup {List(<<c>>) : c \in FieldCarriers}
    \cup {List(<<Carrier(<<<<K("rates"), List(<<Rate(<<>>)>>)>>>>), c>>) :
             c \in {Carrier(<<<<K("rates"), Num(<<"5">>)>>>>),
                    Carrier(<<<<K("error"), Text("x")>>>>),
                    BlockedCarrier, RatedCarrier}}
    \cup {List(<<Carrier(<<<<K("rates"), List(<<MalformedRate>>)>>>>), c>>) :
             c \in {BlockedCarrier, RatedCarrier}}
    \cup {List(<<BlockedCarrier, Carrier(<<>>), RatedCarrier>>)}

\* What a group holds under "carrierGroupDetail".
FieldDetails ==
    {EmptyDict, None,
     Obj(<<<<K("originAddress"), Obj(<<<<K("city"), Text("Boise")>>>>)>>>>),
     Obj(<<<<K("originAddress"), None>>>>),
     Obj(<<<<K("originAddress"), Text("x")>>>>)}

\* What the response holds under "carrierGroups".
FieldGroups ==
    {List(<<>>), None, Num(<<"5">>), List(<<Num(<<"5">>)>>),
     List(<<EmptyDict>>)}
    \cup {List(<<Obj(<<<<K("carrierRates"), cr>>>>)>>) :
             cr \in FieldCarrierRates}
    \cup {List(<<Obj(<<<<K("carrierGroupDetail"), d>>,
                       <<K("carrierRates"), cr>>>>)>>) :
             d \in FieldDetails,
             cr \in {List(<<>>), List(<<Carrier(<<>>)>>)}}
    \cup {List(<<Obj(<<<<K("carrierRates"), List(<<c>>)>>>>),
                  Obj(<<<<K("carrierRates"), List(<<RatedCarrier>>)>>>>)>>) :
             c \in {Carrier(<<<<K("rates"), List(<<Rate(<<>>)>>)>>>>),
                    Carrier(<<<<K("rates"), List(<<MalformedRate>>)>>>>),
                    BlockedCarrier}}

\* The resolved responses: each holds "carrierGroups".
FieldResponses == {Obj(<<<<KeyCarrierGroups, g>>>>) : g \in FieldGroups}

InitFields ==
    /\ pc = "resolved"
    /\ request_json \in FieldRequests
    /\ response_json \in FieldResponses
    /\ entries = <<>> /\ lines = <<>>
    /\ summary = None /\ report = None
    /\ exit_code = 0 /\ out_file = FALSE
    /\ IdleSan /\ IdleCollect /\ IdleExtract

\* return extract_fields(request_json, response_json)
ExtractFields ==
    /\ pc = "resolved"
    /\ summary' = extract_fields(request_json, response_json)
    /\ pc' = "parsed"
    /\ UNCHANGED <<entries, lines, request_json, response_json, report,
                   exit_code, out_file, sanVars, collectVars, extractVars>>

NextFields == ExtractFields \/ GenerateReport \/ WriteReport \/ ExitOnError

SpecFields == InitFields /\ [][NextFields]_vars

SummaryKeys == {K("Ship From"), K("Ship To"), K("Cart"), K("Methods")}

\* C10: for a resolved request and response, extract_fields returns a
\* summary with the keys Ship From, Ship To, Cart and Methods; Ship From is
\* {} when the origin address is absent or no object, Ship To is {} when
\* the destination is absent or no object; and the run renders and writes
\* the report with exit code 0.
C10_FieldMissingNeverFatal ==
    /\ pc # "resolved" =>
          /\ IsDict(summary) /\ DOMAIN summary.v = SummaryKeys
          /\ ~IsDict(OriginAddress(response_json)) =>
                summary.v[K("Ship From")] = EmptyDict
          /\ ~IsDict(Subscript(request_json, KeyDestination)) =>
                summary.v[K("Ship To")] = EmptyDict
    /\ pc = "done" => exit_code = 0 /\ out_file

\* The items of the request's cart, as the loop visits them.
CartSource == Iter(GetItems(Get(request_json, KeyCart, EmptyDict))).elems

LengthNames == {K("ship_length"), K("shipperhq_length"), K("length")}
WidthNames == {K("ship_width"), K("shipperhq_width"), K("width")}
HeightNames == {K("ship_height"), K("shipperhq_height"), K("height")}

\* The attributes of item whose lowered name is one of names.
Named(item, names) ==
    {n \in DOMAIN item.v[K("attributes")].v :
        LET a == item.v[K("attributes")].v[n]
        IN  /\ K("name") \in DOMAIN a.v
            /\ IsStr(a.v[K("name")])
            /\ LowerText(a.v[K("name")].v) \in names}

\* The resolved value of a dimension: that of the last attribute named
\* for it, None when there is none.
Resolved(item, names) ==
    IF K("attributes") \notin DOMAIN item.v \/ Named(item, names) = {}
    THEN None
    ELSE LET a == item.v[K("attributes")].v[Max(Named(item, names))]
         IN  AttributeValue(Get(a, K("values"), None),
                            Get(a, K("value"), None))

\* The dimensions entry n of the summary's cart holds.
DimensionsOf(n) == summary.v[K("Cart")].v[n].v[K("dimensions")]

\* C11: the dimensions of an emitted cart item are "N/A" exactly when one
\* of its resolved length, width and height is missing or falsy, and
\* otherwise the text "<length>x<width>x<height>" of the resolved values.
C11_DimensionsNAIffOneMissing ==
    pc # "resolved" =>
        \A n \in DOMAIN summary.v[K("Cart")].v :
            LET l == Resolved(CartSource[n], LengthNames)
                w == Resolved(CartSource[n], WidthNames)
                h == Resolved(CartSource[n], HeightNames)
            IN  /\ DimensionsOf(n) = NA <=>
                      ~(Truthy(l) /\ Truthy(w) /\ Truthy(h))
                /\ (Truthy(l) /\ Truthy(w) /\ Truthy(h)) =>
                      DimensionsOf(n) =
                          Str(PyStr(l) \o <<"x">> \o PyStr(w) \o <<"x">>
                              \o PyStr(h))

\* A cart item whose three dimensions are resolved, the length by a later
\* attribute that replaces an earlier one.
C11_Witness ==
    /\ pc # "resolved"
    /\ \E n \in DOMAIN summary.v[K("Cart")].v :
          /\ DimensionsOf(n) # NA
          /\ Cardinality(Named(CartSource[n], LengthNames)) > 1

\* A cart item that has the three attributes, one of them falsy.
C11_WitnessFalsy ==
    /\ pc # "resolved"
    /\ \E n \in DOMAIN summary.v[K("Cart")].v :
          /\ DimensionsOf(n) = NA
          /\ Named(CartSource[n], LengthNames) # {}
          /\ Named(CartSource[n], WidthNames) # {}
          /\ Named(CartSource[n], HeightNames) # {}

RECURSIVE Concat(_)
\* The sequences of ss, one after the other.
Concat(ss) == IF ss = <<>> THEN <<>> ELSE Head(ss) \o Concat(Tail(ss))

\* The elements of x that are objects, in order; none when x has no elements.
Objects(x) == SelectSeq(Iter(x).elems, IsDict)

\* The carrierGroup objects of the response, in order.
ResponseGroups ==
    Objects(Get(response_json, KeyCarrierGroups, List(<<>>)))

\* The carrierRate objects of a group, in order.
GroupCarrierRates(group) == Objects(Get(group, K("carrierRates"), List(<<>>)))

\* The carrierRate objects of the response, group after group.
ResponseCarriers ==
    Concat([n \in DOMAIN ResponseGroups |->
               GroupCarrierRates(ResponseGroups[n])])

\* The entries of the summary's Methods.
EmittedMethods == summary.v[K("Methods")].v

\* The carrier's rates are empty: absent, null or [].
HasNoRates(carrier) == ~Truthy(Get(carrier, K("rates"), None))

\* The carrier's prevent-rule list, [] when it has none.
PreventRules(carrier) ==
    Or(Get(carrier, K("preventRulesApplied"), None), List(<<>>))

\* The carrier's resolved error message, "" when it has no error object.
ErrorMessage(carrier) ==
    IF IsDict(Get(carrier, K("error"), None))
    THEN ErrMsg(Get(carrier, K("error"), None))
    ELSE Str(<<>>)

\* A carrier without rates whose prevent rules or error message is not
\* empty.
IsBlocked(carrier) ==
    /\ HasNoRates(carrier)
    /\ Truthy(PreventRules(carrier)) \/ Truthy(ErrorMessage(carrier))

\* The method entry carries blocked reasons or an error message.
CarriesBlock(m) ==
    Truthy(m.v[K("blocked_reasons")]) \/ Truthy(m.v[K("error_message")])

BlockOf(reasons, message) ==
    [blocked_reasons |-> reasons, error_message |-> message]

\* What the blocked carriers of the response are to give, in order.
BlocksOfCarriers ==
    LET cs == SelectSeq(ResponseCarriers, IsBlocked)
    IN  [n \in DOMAIN cs |->
            BlockOf(PreventRules(cs[n]), ErrorMessage(cs[n]))]

\* What the entries of Methods that carry a block hold, in order.
BlocksOfMethods ==
    LET ms == SelectSeq(EmittedMethods, CarriesBlock)
    IN  [n \in DOMAIN ms |->
            BlockOf(ms[n].v[K("blocked_reasons")],
                    ms[n].v[K("error_message")])]

\* C12: a carrier without rates gives no method entry when its prevent rules
\* are empty and it has no error message, and exactly one entry, carrying
\* its prevent rules as blocked_reasons and its message as error_message,
\* when either is not empty: the entries of Methods that carry a block are
\* those of the blocked carriers of the response, one each, in order.
C12_OneEntryIffBlocked ==
    pc # "resolved" => BlocksOfMethods = BlocksOfCarriers

\* The elements of the carrier's rates, in order.
RateElements(carrier) ==
    Iter(Or(Get(carrier, K("rates"), None), List(<<>>))).elems

\* What identifies the entry of a rate: its carrier and its service.
RateOf(carrier_name, service_name) ==
    [carrier |-> carrier_name, service_name |-> service_name]

\* The rates of one carrier, in order.
RatesOfCarrier(carrier, rates) ==
    [n \in DOMAIN rates |->
        RateOf(CarrierName(carrier),
               IF IsDict(rates[n]) THEN Get(rates[n], K("name"), None)
               ELSE None)]

\* Every element of rates of every carrierRate of every carrierGroup, in
\* group-then-carrier-then-rate order.
RatesOfCarriers ==
    Concat([n \in DOMAIN ResponseCarriers |->
               RatesOfCarrier(ResponseCarriers[n],
                              RateElements(ResponseCarriers[n]))])

IsRateMethod(m) == ~CarriesBlock(m)

\* The entries of Methods that stand for a rate, in order.
RatesOfMethods ==
    LET ms == SelectSeq(EmittedMethods, IsRateMethod)
    IN  [n \in DOMAIN ms |->
            RateOf(ms[n].v[K("carrier")], ms[n].v[K("service_name")])]

\* Every element of every rates of the response is an object.
RatesAreObjects ==
    \A n \in DOMAIN ResponseCarriers :
        \A k \in DOMAIN RateElements(ResponseCarriers[n]) :
            IsDict(RateElements(ResponseCarriers[n])[k])

\* C13: for a response whose rates are objects, Methods holds exactly one
\* entry for every element of rates of every carrierRate of every
\* carrierGroup, in group, then carrier, then rate order; a rate whose
\* lookup fails does not remove the entries of the rates, carriers and
\* groups after it.
C13_OneEntryPerRate ==
    (pc # "resolved" /\ RatesAreObjects) => RatesOfMethods = RatesOfCarriers

\* The object whose opening "{" lies on the marker line i or at the start
\* of the line directly after it; None when there is no such object.
ObjectAtOrNextTo(ls, i) ==
    IF Count(LineAt(ls, i), LB) > 0 THEN CollectAtMatch(ls, i)
    ELSE IF i + 1 < Len(ls) /\ StartsWithBrace(Lstrip(LineAt(ls, i + 1)))
    THEN collect_json_from_line_list(ls, i + 1)
    ELSE None

\* C14: the object returned for a marker opens on a line that contains the
\* marker or on the line directly after it; an object further down, such as
\* the one after a different marker, is never returned.
C14_ObjectOpensAtOrNextToMarker ==
    (pc = "extracted" /\ extracted # None) =>
        \E i \in Matches : extracted = ObjectAtOrNextTo(lines, i)

=============================================================================
